---- MODULE Spec2Model ----
(***************************************************************************)
(* Storage layer of sgxwallet: the synchronized LRU cache (lrucache.hpp)   *)
(* and the LevelDB wrapper (LevelDB.cpp).                                  *)
(***************************************************************************)
EXTENDS Integers, Sequences, FiniteSets, TLC

(***************************************************************************)
(* Bounds of the model.                                                    *)
(***************************************************************************)
NumThreads == 2
MaxCapacity == 2

Threads == 1..NumThreads
CacheKeys == {"a", "b", "c"}
CacheValues == {"v1", "v2"}
NoArg == "-"

VARIABLES
    \* lru_cache
    max_size,            \* _max_size
    cache_items_list,    \* _cache_items_list: nodes [id, key, value], front first
    cache_items_map,     \* _cache_items_map: key -> id of its list node (the iterator)
    m,                   \* the recursive_mutex: 0 when free, else the owning thread
    cpc,                 \* per thread: the cache call it is executing
    cret,                \* what the last cache call that returned gave its caller
    \* history of the calls made on the cache
    recency,             \* keys in the order of their most recent put / successful get
    lastPut,             \* key -> value of the most recent put of the key
    serial,              \* the cache as the calls leave it, run one after the other
    \* LevelDB
    db,                  \* the engine's content: key -> stored bytes
    inflight,            \* writeDataUnique calls past their read: call -> how many
    busy,                \* how many calls are in flight: threads inside writeDataUnique
    sret,                \* what the last store call that returned gave its caller
    \* history of the calls made on the store
    lastWrite,           \* key -> payload of the last successful write not yet deleted
    uniqueWrites,        \* key -> the writeDataUnique calls that returned normally since
                         \* the last writeString or delete: how many, and whether the
                         \* last replaced another payload
    scan,                \* what the last scan of the keys gave its caller
    \* the registry: static members of LevelDB, and the process around them
    isInited,
    levelDb,
    csrDb,
    csrStatusDb,
    sgx_data_folder,
    ipc,                 \* where the running initDataFolderAndDBs call is
    rret,                \* what the last registry call that returned gave its caller
    folders              \* the directories that exist on disk

cacheVars == <<max_size, cache_items_list, cache_items_map, m, cpc, cret,
               recency, lastPut, serial>>

storeVars == <<db, inflight, busy, sret, lastWrite, uniqueWrites>>

registryVars == <<isInited, levelDb, csrDb, csrStatusDb, sgx_data_folder, ipc, rret,
                  folders>>

vars == <<max_size, cache_items_list, cache_items_map, m, cpc, cret,
          recency, lastPut, serial, db, inflight, busy, sret, lastWrite, uniqueWrites,
          scan, isInited, levelDb, csrDb, csrStatusDb, sgx_data_folder, ipc, rret,
          folders>>

(***************************************************************************)
(* std::list / std::unordered_map helpers.                                 *)
(***************************************************************************)
EmptyMap == [k \in {} |-> 0]

MapErase(map, key) == [k \in (DOMAIN map) \ {key} |-> map[k]]

MapAssign(map, key, id) ==
    [k \in (DOMAIN map) \cup {key} |-> IF k = key THEN id ELSE map[k]]

ListIds(list) == {list[i].id : i \in 1..Len(list)}

\* a node identity not in use: what push_front allocates
FreshId(list) ==
    CHOOSE i \in 1..(Len(list) + 1) :
        /\ i \notin ListIds(list)
        /\ \A j \in 1..(Len(list) + 1) : j \notin ListIds(list) => i <= j

ListErase(list, id) == SelectSeq(list, LAMBDA n : n.id # id)

ListNode(list, id) == CHOOSE n \in {list[i] : i \in 1..Len(list)} : n.id = id

\* list.splice(list.begin(), list, it): move the node to the front
ListSpliceFront(list, id) == <<ListNode(list, id)>> \o ListErase(list, id)

ListPopBack(list) == SubSeq(list, 1, Len(list) - 1)

Cache == [list |-> cache_items_list, map |-> cache_items_map]

(***************************************************************************)
(* lru_cache operations: each gives the cache after the call and what the  *)
(* call returns.                                                           *)
(***************************************************************************)
Void == [kind |-> "void", val |-> NoArg, n |-> 0]
RangeError == [kind |-> "range_error", val |-> NoArg, n |-> 0]
ValueOf(v) == [kind |-> "value", val |-> v, n |-> 0]
BoolOf(b) == [kind |-> "bool", val |-> IF b THEN "true" ELSE "false", n |-> 0]
SizeOf(n) == [kind |-> "size", val |-> NoArg, n |-> n]

\* put that forgets the capacity check
put_NoEviction(c, key, value) ==
    LET found == key \in DOMAIN c.map
        node == [id |-> FreshId(c.list), key |-> key, value |-> value]
        pushed == <<node>> \o c.list
        list1 == IF found THEN ListErase(pushed, c.map[key]) ELSE pushed
        map1 == IF found THEN MapErase(c.map, key) ELSE c.map
    IN  [list |-> list1, map |-> MapAssign(map1, key, node.id), ret |-> Void]

put(c, key, value) ==
    LET found == key \in DOMAIN c.map
        node == [id |-> FreshId(c.list), key |-> key, value |-> value]
        pushed == <<node>> \o c.list
        list1 == IF found THEN ListErase(pushed, c.map[key]) ELSE pushed
        map1 == IF found THEN MapErase(c.map, key) ELSE c.map
        map2 == MapAssign(map1, key, node.id)
        over == Cardinality(DOMAIN map2) > max_size
        last == list1[Len(list1)]
    IN  [list |-> IF over THEN ListPopBack(list1) ELSE list1,
         map |-> IF over THEN MapErase(map2, last.key) ELSE map2,
         ret |-> Void]

\* get that does not move the entry to the front
get_NoSplice(c, key) ==
    IF key \notin DOMAIN c.map
    THEN [list |-> c.list, map |-> c.map, ret |-> RangeError]
    ELSE [list |-> c.list, map |-> c.map,
          ret |-> ValueOf(ListNode(c.list, c.map[key]).value)]

\* get that answers a miss with a default value instead of throwing
get_DefaultOnMiss(c, key) ==
    IF key \notin DOMAIN c.map
    THEN [list |-> c.list, map |-> c.map, ret |-> ValueOf(NoArg)]
    ELSE [list |-> ListSpliceFront(c.list, c.map[key]),
          map |-> c.map,
          ret |-> ValueOf(ListNode(c.list, c.map[key]).value)]

get(c, key) ==
    IF key \notin DOMAIN c.map
    THEN [list |-> c.list, map |-> c.map, ret |-> RangeError]
    ELSE [list |-> ListSpliceFront(c.list, c.map[key]),
          map |-> c.map,
          ret |-> ValueOf(ListNode(c.list, c.map[key]).value)]

\* exists that touches the entry as get does
exists_Touch(c, key) ==
    [list |-> IF key \in DOMAIN c.map THEN ListSpliceFront(c.list, c.map[key]) ELSE c.list,
     map |-> c.map, ret |-> BoolOf(key \in DOMAIN c.map)]

exists(c, key) ==
    [list |-> c.list, map |-> c.map, ret |-> BoolOf(key \in DOMAIN c.map)]

\* putIfDoesNotExist without the test
putIfDoesNotExist_Always(c, key, value) == put(c, key, value)

putIfDoesNotExist(c, key, value) ==
    IF ~(exists(c, key).ret.val = "true")
    THEN put(c, key, value)
    ELSE [list |-> c.list, map |-> c.map, ret |-> Void]

size(c) ==
    [list |-> c.list, map |-> c.map, ret |-> SizeOf(Cardinality(DOMAIN c.map))]

(***************************************************************************)
(* History of the calls: recency as the interface defines it.              *)
(***************************************************************************)
Touch(seq, key) == <<key>> \o SelectSeq(seq, LAMBDA k : k # key)

Idle == [op |-> "idle", key |-> NoArg, value |-> NoArg]

(***************************************************************************)
(* Actions of the cache.                                                   *)
(***************************************************************************)
\* lock_guard<recursive_mutex> l(m) at the head of every operation
CacheCall(t, op, key, value) ==
    /\ m = 0
    /\ cpc[t] = Idle
    /\ m' = t
    /\ cpc' = [cpc EXCEPT ![t] = [op |-> op, key |-> key, value |-> value]]
    /\ UNCHANGED <<max_size, cache_items_list, cache_items_map, cret, recency, lastPut,
                   serial>>
    /\ UNCHANGED <<storeVars, scan, registryVars>>

Return(t, r) ==
    /\ cache_items_list' = r.list
    /\ cache_items_map' = r.map
    /\ cret' = [op |-> cpc[t].op, key |-> cpc[t].key, kind |-> r.ret.kind,
                val |-> r.ret.val, n |-> r.ret.n]
    /\ cpc' = [cpc EXCEPT ![t] = Idle]
    /\ m' = 0
    /\ UNCHANGED <<max_size, serial>>
    /\ UNCHANGED <<storeVars, scan, registryVars>>

PutBody(t) ==
    /\ m = t
    /\ cpc[t].op = "put"
    /\ Return(t, put(Cache, cpc[t].key, cpc[t].value))
    /\ recency' = Touch(recency, cpc[t].key)
    /\ lastPut' = [lastPut EXCEPT ![cpc[t].key] = cpc[t].value]

PutIfDoesNotExistBody(t) ==
    /\ m = t
    /\ cpc[t].op = "putIfDoesNotExist"
    /\ Return(t, putIfDoesNotExist(Cache, cpc[t].key, cpc[t].value))
    /\ IF cpc[t].key \in DOMAIN cache_items_map
       THEN UNCHANGED <<recency, lastPut>>
       ELSE /\ recency' = Touch(recency, cpc[t].key)
            /\ lastPut' = [lastPut EXCEPT ![cpc[t].key] = cpc[t].value]

GetBody(t) ==
    /\ m = t
    /\ cpc[t].op = "get"
    /\ Return(t, get(Cache, cpc[t].key))
    /\ recency' = IF cpc[t].key \in DOMAIN cache_items_map
                  THEN Touch(recency, cpc[t].key) ELSE recency
    /\ UNCHANGED lastPut

ExistsBody(t) ==
    /\ m = t
    /\ cpc[t].op = "exists"
    /\ Return(t, exists(Cache, cpc[t].key))
    /\ UNCHANGED <<recency, lastPut>>

SizeBody(t) ==
    /\ m = t
    /\ cpc[t].op = "size"
    /\ Return(t, size(Cache))
    /\ UNCHANGED <<recency, lastPut>>

(***************************************************************************)
(* The cache under concurrent callers, statement by statement.  A call is   *)
(* invoked, waits for the mutex, runs its statements and returns, which     *)
(* releases the mutex.  serial is the cache as the calls leave it when they *)
(* are run one after the other in the order in which they took the mutex.   *)
(* Nothing reads the operation and the arguments of a call that waits for   *)
(* the mutex, so they are drawn when the call takes it.  get returns a      *)
(* const value_t& to the value inside the list node: the caller reads it    *)
(* after the lock_guard of get has released the mutex.                      *)
(***************************************************************************)
LockKeys == {"a", "b"}
LockValues == {"v1", "v2"}

\* a call that has started: where it is, whether another call was in progress
\* when it was invoked, and what it returns when run in its turn
Started(op, key, value, at, overlap, expect) ==
    [op |-> op, key |-> key, value |-> value, at |-> at, overlap |-> overlap,
     expect |-> expect, ref |-> 0]

\* what a read of memory that has been freed can yield
Freed == LockValues \cup {"?"}

\* the values a read through the reference returned by get can yield: the
\* value of the node at that address, or anything once the node is destroyed
Deref(list, ref) ==
    IF \E i \in 1..Len(list) : list[i].id = ref
    THEN {ListNode(list, ref).value}
    ELSE Freed

\* lock_guard<recursive_mutex> l(m): TRUE when the constructor can return for
\* thread t, the mutex being free or already owned by t
lock_guard(owner, t) == owner = 0 \/ owner = t

\* put, lines 59-65: find, push_front, erase of the old node, map[key] = begin()
putInsert(c, key, value) ==
    LET found == key \in DOMAIN c.map
        node == [id |-> FreshId(c.list), key |-> key, value |-> value]
        pushed == <<node>> \o c.list
        list1 == IF found THEN ListErase(pushed, c.map[key]) ELSE pushed
        map1 == IF found THEN MapErase(c.map, key) ELSE c.map
    IN  [list |-> list1, map |-> MapAssign(map1, key, node.id)]

\* put, lines 67-72: the capacity check
putEvict(c) ==
    IF Cardinality(DOMAIN c.map) > max_size /\ c.list # <<>>
    THEN [list |-> ListPopBack(c.list), map |-> MapErase(c.map, c.list[Len(c.list)].key)]
    ELSE [list |-> c.list, map |-> c.map]

\* the call run alone on cache c
RunAlone(c, call) ==
    IF call.op = "put" THEN put(c, call.key, call.value)
    ELSE IF call.op = "putIfDoesNotExist" THEN putIfDoesNotExist(c, call.key, call.value)
    ELSE IF call.op = "get" THEN get(c, call.key)
    ELSE IF call.op = "exists" THEN exists(c, call.key)
    ELSE size(c)

Invoke(t) ==
    /\ cpc[t] = Idle
    /\ cpc' = [cpc EXCEPT ![t] =
                  Started("call", NoArg, NoArg, "lock_guard",
                          \E u \in Threads \ {t} : cpc[u] # Idle, Void)]
    /\ UNCHANGED <<max_size, cache_items_list, cache_items_map, m, cret, recency, lastPut,
                   serial>>
    /\ UNCHANGED <<storeVars, scan, registryVars>>

\* the lock_guard at the head of the operation; those of exists and put inside
\* putIfDoesNotExist find the mutex owned by their own thread
Acquire(t, op, key, value) ==
    /\ cpc[t] # Idle
    /\ cpc[t].at = "lock_guard"
    /\ lock_guard(m, t)
    /\ m' = t
    /\ LET call == Started(op, key, value, op, cpc[t].overlap, Void)
           alone == RunAlone(serial, call)
       IN  /\ serial' = [list |-> alone.list, map |-> alone.map]
           /\ cpc' = [cpc EXCEPT ![t] = [call EXCEPT !.expect = alone.ret]]
    /\ UNCHANGED <<max_size, cache_items_list, cache_items_map, cret, recency, lastPut>>
    /\ UNCHANGED <<storeVars, scan, registryVars>>

At(t, at) == cpc[t] # Idle /\ cpc[t].at = at

\* the caller has the result of its call
Finish(t, ret) ==
    /\ cret' = [op |-> cpc[t].op, key |-> cpc[t].key, value |-> cpc[t].value,
                kind |-> ret.kind, val |-> ret.val, n |-> ret.n,
                overlap |-> cpc[t].overlap, expect |-> cpc[t].expect]
    /\ cpc' = [cpc EXCEPT ![t] = Idle]
    /\ UNCHANGED <<max_size, recency, lastPut, serial>>
    /\ UNCHANGED <<storeVars, scan, registryVars>>

\* the operation returns: its lock_guard releases the mutex
Leave(t, ret) ==
    /\ Finish(t, ret)
    /\ m' = 0

PutInsert(t) ==
    /\ At(t, "put")
    /\ LET c == putInsert(Cache, cpc[t].key, cpc[t].value) IN
       /\ cache_items_list' = c.list
       /\ cache_items_map' = c.map
    /\ cpc' = [cpc EXCEPT ![t].at = "evict"]
    /\ UNCHANGED <<max_size, m, cret, recency, lastPut, serial>>
    /\ UNCHANGED <<storeVars, scan, registryVars>>

PutEvict(t) ==
    /\ At(t, "evict")
    /\ LET c == putEvict(Cache) IN
       /\ cache_items_list' = c.list
       /\ cache_items_map' = c.map
    /\ Leave(t, Void)

\* putIfDoesNotExist, line 51: put follows when the key is not there
PutIfDoesNotExistExists(t) ==
    /\ At(t, "putIfDoesNotExist")
    /\ IF exists(Cache, cpc[t].key).ret.val = "true"
       THEN Leave(t, Void)
       ELSE /\ cpc' = [cpc EXCEPT ![t].at = "put"]
            /\ UNCHANGED <<max_size, m, cret, recency, lastPut, serial>>
            /\ UNCHANGED <<storeVars, scan, registryVars>>
    /\ UNCHANGED <<cache_items_list, cache_items_map>>

\* get, lines 80-88: the throw, or the splice and the return of the reference
GetLocked(t) ==
    /\ At(t, "get")
    /\ LET r == get(Cache, cpc[t].key) IN
       /\ cache_items_list' = r.list
       /\ cache_items_map' = r.map
       /\ IF r.ret = RangeError
          THEN Leave(t, r.ret)
          ELSE /\ cpc' = [cpc EXCEPT ![t].at = "return",
                                     ![t].ref = cache_items_map[cpc[t].key]]
               /\ m' = 0
               /\ UNCHANGED <<max_size, cret, recency, lastPut, serial>>
               /\ UNCHANGED <<storeVars, scan, registryVars>>

\* the caller of get reads the value through the reference it was returned
GetReturn(t) ==
    /\ At(t, "return")
    /\ \E v \in Deref(cache_items_list, cpc[t].ref) : Finish(t, ValueOf(v))
    /\ UNCHANGED <<cache_items_list, cache_items_map, m>>

ExistsLocked(t) ==
    /\ At(t, "exists")
    /\ Leave(t, exists(Cache, cpc[t].key).ret)
    /\ UNCHANGED <<cache_items_list, cache_items_map>>

SizeLocked(t) ==
    /\ At(t, "size")
    /\ Leave(t, size(Cache).ret)
    /\ UNCHANGED <<cache_items_list, cache_items_map>>

LockNext ==
    \/ \E t \in Threads : Invoke(t)
    \/ \E t \in Threads, k \in LockKeys, v \in LockValues : Acquire(t, "put", k, v)
    \/ \E t \in Threads, k \in LockKeys, v \in LockValues :
           Acquire(t, "putIfDoesNotExist", k, v)
    \/ \E t \in Threads, k \in LockKeys : Acquire(t, "get", k, NoArg)
    \/ \E t \in Threads, k \in LockKeys : Acquire(t, "exists", k, NoArg)
    \/ \E t \in Threads : Acquire(t, "size", NoArg, NoArg)
    \/ \E t \in Threads : PutInsert(t)
    \/ \E t \in Threads : PutEvict(t)
    \/ \E t \in Threads : PutIfDoesNotExistExists(t)
    \/ \E t \in Threads : GetLocked(t)
    \/ \E t \in Threads : GetReturn(t)
    \/ \E t \in Threads : ExistsLocked(t)
    \/ \E t \in Threads : SizeLocked(t)

(***************************************************************************)
(* Record codec.  Stored bytes are sequences of one-character strings.     *)
(* Json::FastWriter and Json::Reader are modelled on the documents this    *)
(* layer writes and reads: objects whose members are strings, unsigned     *)
(* integers or nested objects.                                             *)
(***************************************************************************)
Quote == "\""
Backslash == "\\"
Digits == <<"0", "1", "2", "3", "4", "5", "6", "7", "8", "9">>
DigitSet == {Digits[i] : i \in 1..Len(Digits)}
DigitVal(ch) == CHOOSE d \in 0..9 : Digits[d + 1] = ch

NameValue == <<"v", "a", "l", "u", "e">>
NameTimestamp == <<"t", "i", "m", "e", "s", "t", "a", "m", "p">>

\* std::to_string of a non-negative integer
RECURSIVE to_string(_)
to_string(n) ==
    IF n < 10 THEN <<Digits[n + 1]>>
    ELSE to_string(n \div 10) \o <<Digits[(n % 10) + 1]>>

\* Json::valueToQuotedString: the text between quotes, special characters escaped
RECURSIVE EscapeChars(_)
EscapeChars(s) ==
    IF s = <<>> THEN <<>>
    ELSE (IF Head(s) \in {Quote, Backslash} THEN <<Backslash, Head(s)>> ELSE <<Head(s)>>)
         \o EscapeChars(Tail(s))

valueToQuotedString(s) == <<Quote>> \o EscapeChars(s) \o <<Quote>>

\* Json::FastWriter::write of the object {"timestamp": ts, "value": value}:
\* members in name order, no spaces, a trailing line feed
QuotedTimestampName == valueToQuotedString(NameTimestamp)
QuotedValueName == valueToQuotedString(NameValue)

FastWriterWrite(ts, value) ==
    <<"{">> \o QuotedTimestampName \o <<":">> \o valueToQuotedString(ts)
    \o <<",">> \o QuotedValueName \o <<":">> \o valueToQuotedString(value)
    \o <<"}", "\n">>

JsonNull == [type |-> "null", text |-> <<>>]
JsonString(s) == [type |-> "string", text |-> s]
JsonNumber(s) == [type |-> "number", text |-> s]
JsonObject == [type |-> "object", text |-> <<>>]

NoMembers == [x \in {} |-> JsonNull]
SetMember(ms, name, v) ==
    [x \in (DOMAIN ms) \cup {name} |-> IF x = name THEN v ELSE ms[x]]

RECURSIVE SkipSpaces(_, _)
SkipSpaces(s, i) ==
    IF i <= Len(s) /\ s[i] \in {" ", "\n"} THEN SkipSpaces(s, i + 1) ELSE i

\* Reader::readString + decodeString; i is the position after the opening quote
RECURSIVE ReadStringToken(_, _, _)
ReadStringToken(s, i, acc) ==
    IF i > Len(s) THEN [ok |-> FALSE, text |-> acc, next |-> i]
    ELSE IF s[i] = Quote THEN [ok |-> TRUE, text |-> acc, next |-> i + 1]
    ELSE IF s[i] = Backslash
         THEN IF i + 1 <= Len(s) /\ s[i + 1] \in {Quote, Backslash}
              THEN ReadStringToken(s, i + 2, Append(acc, s[i + 1]))
              ELSE [ok |-> FALSE, text |-> acc, next |-> i]
    ELSE ReadStringToken(s, i + 1, Append(acc, s[i]))

\* Reader::readNumber + decodeNumber, unsigned integers only
RECURSIVE ReadNumberToken(_, _, _)
ReadNumberToken(s, i, acc) ==
    IF i <= Len(s) /\ s[i] \in DigitSet
    THEN ReadNumberToken(s, i + 1, acc * 10 + DigitVal(s[i]))
    ELSE [ok |-> TRUE, val |-> JsonNumber(to_string(acc)), next |-> i]

\* Reader::readValue and Reader::readObject.  A member is created before its
\* value is read, so a document that fails part-way leaves what was read so far.
RECURSIVE ReadValue(_, _)
RECURSIVE ReadObject(_, _, _, _)
ReadValue(s, i) ==
    LET j == SkipSpaces(s, i) IN
    IF j > Len(s) THEN [ok |-> FALSE, val |-> JsonNull, next |-> j, members |-> NoMembers]
    ELSE IF s[j] = Quote
         THEN LET r == ReadStringToken(s, j + 1, <<>>) IN
              [ok |-> r.ok, val |-> IF r.ok THEN JsonString(r.text) ELSE JsonNull,
               next |-> r.next, members |-> NoMembers]
    ELSE IF s[j] \in DigitSet
         THEN LET r == ReadNumberToken(s, j, 0) IN
              [ok |-> TRUE, val |-> r.val, next |-> r.next, members |-> NoMembers]
    ELSE IF s[j] = "{"
         THEN ReadObject(s, j + 1, NoMembers, <<>>)
    ELSE [ok |-> FALSE, val |-> JsonNull, next |-> j, members |-> NoMembers]

ReadObject(s, i, ms, name) ==
    LET j == SkipSpaces(s, i)
        fail(at, mem) == [ok |-> FALSE, val |-> JsonObject, next |-> at, members |-> mem]
    IN
    IF j > Len(s) THEN fail(j, ms)
    ELSE IF s[j] = "}" /\ name = <<>>
         THEN [ok |-> TRUE, val |-> JsonObject, next |-> j + 1, members |-> ms]
    ELSE IF s[j] # Quote THEN fail(j, ms)
    ELSE LET n == ReadStringToken(s, j + 1, <<>>) IN
         IF ~n.ok THEN fail(n.next, ms)
         ELSE LET k == SkipSpaces(s, n.next) IN
              IF k > Len(s) \/ s[k] # ":" THEN fail(k, ms)
              ELSE LET v == ReadValue(s, k + 1)
                       ms1 == SetMember(ms, n.text, v.val)
                       c == SkipSpaces(s, v.next)
                   IN  IF ~v.ok THEN fail(v.next, ms1)
                       ELSE IF c > Len(s) THEN fail(c, ms1)
                       ELSE IF s[c] = "}"
                            THEN [ok |-> TRUE, val |-> JsonObject, next |-> c + 1,
                                  members |-> ms1]
                       ELSE IF s[c] = "," THEN ReadObject(s, c + 1, ms1, n.text)
                       ELSE fail(c, ms1)

\* Json::Reader::parse: the root value; text after it is not looked at
ReaderParse(doc) == ReadValue(doc, 1)

\* key_data[name]: a member that is not there reads as null
Member(parsed, name) ==
    IF name \in DOMAIN parsed.members THEN parsed.members[name] ELSE JsonNull

\* Json::Value::asString: null is "", a number its decimal text, an object throws
asString(v) ==
    IF v.type = "object" THEN [ok |-> FALSE, text |-> <<>>]
    ELSE [ok |-> TRUE, text |-> v.text]

(***************************************************************************)
(* The engine (leveldb::DB) at its interface: atomic Get / Put / Delete on *)
(* one key, each of which may end with a status that is neither ok nor     *)
(* not-found.                                                              *)
(***************************************************************************)
StoreKeys == {"k1", "k2"}
StorePayloads == {<<>>, <<"a">>, <<"{", Quote, Backslash>>}
\* the payloads writeDataUnique is called with
UniquePayloads == {<<>>, <<"{", Quote, Backslash>>}
\* records found in the store when this layer opens it
InitialRecords == {<<>>, <<"a">>, <<"{", "a">>}
EngineFaults == {"IOError"}
NoFault == "none"

EngineGet(d, key, fault) ==
    IF fault # NoFault THEN [status |-> fault, bytes |-> <<>>]
    ELSE IF key \in DOMAIN d THEN [status |-> "ok", bytes |-> d[key]]
    ELSE [status |-> "NotFound", bytes |-> <<>>]

EnginePut(d, key, bytes, fault) ==
    IF fault # NoFault THEN [status |-> fault, db |-> d]
    ELSE [status |-> "ok",
          db |-> [k \in (DOMAIN d) \cup {key} |-> IF k = key THEN bytes ELSE d[k]]]

EngineDelete(d, key, fault) ==
    IF fault # NoFault THEN [status |-> fault, db |-> d]
    ELSE [status |-> "ok", db |-> [k \in (DOMAIN d) \ {key} |-> d[k]]]

(***************************************************************************)
(* LevelDB operations: each gives what the call returns or throws (kind,   *)
(* val) and, for the writing ones, the engine's content after the call.    *)
(***************************************************************************)
Nullptr == [kind |-> "nullptr", val |-> <<>>]
Payload(s) == [kind |-> "value", val |-> s]
Done == [kind |-> "void", val |-> <<>>]
Thrown(what) == [kind |-> what, val |-> <<>>]

\* TRUE when throwExceptionOnError throws SGXException(COULD_NOT_ACCESS_DATABASE)
\* throwExceptionOnError without the not-found return
throwExceptionOnError_NotFoundThrows(status) == status # "ok"

throwExceptionOnError(status) ==
    IF status = "NotFound" THEN FALSE
    ELSE status # "ok"

readNewStyleValue(value) ==
    LET key_data == ReaderParse(value)
        s == asString(Member(key_data, NameValue))
    IN  IF s.ok THEN Payload(s.text) ELSE Thrown("LogicError")

readString(d, key, fault) ==
    LET g == EngineGet(d, key, fault) IN
    IF throwExceptionOnError(g.status) THEN Thrown("COULD_NOT_ACCESS_DATABASE")
    ELSE IF g.status = "NotFound" THEN Nullptr
    ELSE IF Len(g.bytes) = 0 THEN Thrown("out_of_range")
    ELSE IF g.bytes[1] = "{" THEN readNewStyleValue(g.bytes)
    ELSE Payload(g.bytes)

\* writeString that forgets the timestamp member
writeString_NoTimestamp(d, key, value, time, fault) ==
    LET output == <<"{">> \o QuotedValueName \o <<":">> \o valueToQuotedString(value)
                  \o <<"}", "\n">>
        p == EnginePut(d, key, output, fault)
    IN  [db |-> p.db,
         ret |-> IF p.status \notin {"ok", "NotFound"}
                 THEN Thrown("COULD_NOT_ACCESS_DATABASE") ELSE Done]

\* writeString that stores the value as it is, as older versions did
writeString_Raw(d, key, value, time, fault) ==
    LET p == EnginePut(d, key, value, fault) IN
    [db |-> p.db,
     ret |-> IF p.status \notin {"ok", "NotFound"}
             THEN Thrown("COULD_NOT_ACCESS_DATABASE") ELSE Done]

writeString(d, key, value, time, fault) ==
    LET output == FastWriterWrite(to_string(time), value)
        p == EnginePut(d, key, output, fault)
    IN  [db |-> p.db,
         ret |-> IF throwExceptionOnError(p.status)
                 THEN Thrown("COULD_NOT_ACCESS_DATABASE") ELSE Done]

\* deleteKey that takes a missing key for an error
deleteKey_MissingKeyThrows(d, key, fault) ==
    LET p == EngineDelete(d, key, fault) IN
    [db |-> p.db,
     ret |-> IF p.status \notin {"ok", "NotFound"} \/ key \notin DOMAIN d
             THEN Thrown("COULD_NOT_ACCESS_DATABASE") ELSE Done]

deleteKey(d, key, fault) ==
    LET p == EngineDelete(d, key, fault) IN
    [db |-> p.db,
     ret |-> IF throwExceptionOnError(p.status)
             THEN Thrown("COULD_NOT_ACCESS_DATABASE") ELSE Done]

\* writeDataUnique, first engine call: the outcome of if (readString(name)) throw
writeDataUniqueCheck(d, key, fault) ==
    LET r == readString(d, key, fault) IN
    IF r.kind = "nullptr" THEN Done
    ELSE IF r.kind = "value" THEN Thrown("KEY_SHARE_ALREADY_EXISTS")
    ELSE r

\* a write that is conditional on the key still having no record
writeDataUniqueWrite_IfStillAbsent(d, key, value, time, fault) ==
    IF fault = NoFault /\ key \in DOMAIN d
    THEN [db |-> d, ret |-> Thrown("KEY_SHARE_ALREADY_EXISTS")]
    ELSE LET p == EnginePut(d, key, FastWriterWrite(to_string(time), value), fault) IN
         [db |-> p.db,
          ret |-> IF p.status # "ok" THEN Thrown("COULD_NOT_ACCESS_DATABASE") ELSE Done]

\* writeDataUnique, second engine call: writeString(name, value)
writeDataUniqueWrite(d, key, value, time, fault) ==
    writeString(d, key, value, time, fault)

(***************************************************************************)
(* Actions of the store.                                                   *)
(***************************************************************************)
\* the writeDataUnique calls between their readString and their writeString
Calls == [key : StoreKeys, value : UniquePayloads]
\* a thread that is not inside a call
FreeThread == busy < NumThreads

\* std::time(nullptr): the wall clock, read at each write (seconds; a value of
\* one digit and one of two)
Times == {9, 10}

Written(p) == [state |-> "written", val |-> p]
NotWritten == [state |-> "none", val |-> <<>>]
NoUniqueWrites == [n |-> 0, changed |-> FALSE]

\* what the key held when the call looked: nothing, a record this layer wrote,
\* or a record that was there before
Held(key) ==
    IF key \notin DOMAIN db THEN "absent"
    ELSE IF lastWrite[key].state = "written" THEN "written"
    ELSE "legacy"

SRet(op, key, r) ==
    [op |-> op, key |-> key, kind |-> r.kind, val |-> r.val, was |-> Held(key)]

ReadString(key, fault) ==
    /\ FreeThread
    /\ sret' = SRet("readString", key, readString(db, key, fault))
    /\ UNCHANGED <<db, inflight, busy, lastWrite, uniqueWrites>>
    /\ UNCHANGED <<cacheVars, scan, registryVars>>

WriteString(key, value, time, fault) ==
    LET r == writeString(db, key, value, time, fault) IN
    /\ FreeThread
    /\ db' = r.db
    /\ sret' = SRet("writeString", key, r.ret)
    /\ lastWrite' = IF r.ret.kind = "void"
                    THEN [lastWrite EXCEPT ![key] = Written(value)] ELSE lastWrite
    /\ uniqueWrites' = IF r.ret.kind = "void"
                       THEN [uniqueWrites EXCEPT ![key] = NoUniqueWrites] ELSE uniqueWrites
    /\ UNCHANGED <<inflight, busy>>
    /\ UNCHANGED <<cacheVars, scan, registryVars>>

DeleteKey(key, fault) ==
    LET r == deleteKey(db, key, fault) IN
    /\ FreeThread
    /\ db' = r.db
    /\ sret' = SRet("deleteKey", key, r.ret)
    /\ lastWrite' = IF r.ret.kind = "void"
                    THEN [lastWrite EXCEPT ![key] = NotWritten] ELSE lastWrite
    /\ uniqueWrites' = IF r.ret.kind = "void"
                       THEN [uniqueWrites EXCEPT ![key] = NoUniqueWrites] ELSE uniqueWrites
    /\ UNCHANGED <<inflight, busy>>
    /\ UNCHANGED <<cacheVars, scan, registryVars>>

\* writeDataUnique up to and including its readString, for the callers of
\* writeDataUnique(key, value), whatever the value
WriteDataUniqueRead(key, fault) ==
    LET r == writeDataUniqueCheck(db, key, fault) IN
    /\ FreeThread
    /\ IF r.kind = "void"
       THEN /\ \E value \in UniquePayloads :
                  inflight' = [inflight EXCEPT ![[key |-> key, value |-> value]] = @ + 1]
            /\ busy' = busy + 1
            /\ UNCHANGED sret
       ELSE /\ sret' = SRet("writeDataUnique", key, r)
            /\ UNCHANGED <<inflight, busy>>
    /\ UNCHANGED <<db, lastWrite, uniqueWrites>>
    /\ UNCHANGED <<cacheVars, scan, registryVars>>

\* writeDataUnique from its writeString to its return
WriteDataUniqueWrite(call, time, fault) ==
    LET r == writeDataUniqueWrite(db, call.key, call.value, time, fault) IN
    /\ inflight[call] > 0
    /\ inflight' = [inflight EXCEPT ![call] = @ - 1]
    /\ busy' = busy - 1
    /\ db' = r.db
    /\ sret' = [SRet("writeDataUnique", call.key, r.ret) EXCEPT !.was = "absent"]
    /\ lastWrite' = IF r.ret.kind = "void"
                    THEN [lastWrite EXCEPT ![call.key] = Written(call.value)]
                    ELSE lastWrite
    /\ uniqueWrites' = IF r.ret.kind = "void"
                       THEN [uniqueWrites EXCEPT ![call.key] =
                                [n |-> @.n + 1,
                                 changed |-> @.n >= 1 /\ lastWrite[call.key].val # call.value]]
                       ELSE uniqueWrites
    /\ UNCHANGED <<cacheVars, scan, registryVars>>

StoreRest ==
    /\ inflight = [c \in Calls |-> 0]
    /\ busy = 0
    /\ sret = [op |-> "idle", key |-> NoArg, kind |-> "none", val |-> <<>>, was |-> "absent"]
    /\ lastWrite = [k \in StoreKeys |-> NotWritten]
    /\ uniqueWrites = [k \in StoreKeys |-> NoUniqueWrites]

Statuses == EngineFaults \cup {NoFault}

\* a call whose engine call fails ends the same way whatever it was to write
StoreNext ==
    \/ \E k \in StoreKeys, f \in Statuses : ReadString(k, f)
    \/ \E k \in StoreKeys, v \in StorePayloads, time \in Times : WriteString(k, v, time, NoFault)
    \/ \E k \in StoreKeys, f \in EngineFaults :
           WriteString(k, CHOOSE v \in StorePayloads : TRUE, CHOOSE time \in Times : TRUE, f)
    \/ \E k \in StoreKeys, f \in Statuses : DeleteKey(k, f)
    \/ \E k \in StoreKeys, f \in Statuses : WriteDataUniqueRead(k, f)
    \/ \E c \in Calls, time \in Times : WriteDataUniqueWrite(c, time, NoFault)
    \/ \E c \in Calls, f \in EngineFaults :
           WriteDataUniqueWrite(c, CHOOSE time \in Times : TRUE, f)

(***************************************************************************)
(* Scans of the keys: visitKeys, writeKeysToVector1, getAllKeys and         *)
(* getLatestCreatedKey read the engine through an iterator and write        *)
(* nothing.                                                                 *)
(***************************************************************************)
MaxKeysToVisit == 3

ScanKeys == {"k1", "k2", "k3"}
\* the engine's order of the keys
KeyOrder == <<"k1", "k2", "k3">>

\* db->NewIterator; SeekToFirst; Valid; Next: the keys held, in the engine's order
Iterate(d) == SelectSeq(KeyOrder, LAMBDA k : k \in DOMAIN d)

\* CHECK_STATE(expression): throws when the expression is false
CHECK_STATE(expression) == IF expression THEN Done ELSE Thrown("InvalidStateException")

\* the bytes that follow a key in the engine's buffer, up to the first NUL:
\* it->key().data() carries no length
BufferTails == {<<>>, <<"?">>}
Visitors == {"nullptr", "visitor"}

\* the loop of visitKeys and writeKeysToVector1: the counter is compared with
\* the limit after the key at position i has been taken
RECURSIVE ReadLoop(_, _, _, _)
ReadLoop(keys, i, readCounter, maxKeysToVisit) ==
    IF i > Len(keys) THEN readCounter
    ELSE IF readCounter + 1 >= maxKeysToVisit THEN readCounter + 1
    ELSE ReadLoop(keys, i + 1, readCounter + 1, maxKeysToVisit)

visitKeys(d, visitor, maxKeysToVisit, tails) ==
    IF CHECK_STATE(visitor # "nullptr") # Done
    THEN [kind |-> "InvalidStateException", count |-> 0, keys |-> <<>>]
    ELSE LET keys == Iterate(d)
             readCounter == ReadLoop(keys, 1, 0, maxKeysToVisit)
         IN  [kind |-> "count", count |-> readCounter,
              keys |-> [i \in 1..readCounter |->
                           [key |-> keys[i], rest |-> tails[keys[i]]]]]

writeKeysToVector1(d, maxKeysToVisit) ==
    LET keys == Iterate(d)
        readCounter == ReadLoop(keys, 1, 0, maxKeysToVisit)
    IN  [kind |-> "keys", count |-> readCounter,
         keys |-> [i \in 1..readCounter |-> [key |-> keys[i], rest |-> <<>>]]]

\* it->value().ToString()[0]: the terminator when the value is empty
Nul == "NUL"
FirstChar(bytes) == IF bytes = <<>> THEN Nul ELSE bytes[1]

\* std::stoi: spaces, an optional sign, then decimal digits; what follows the
\* digits is not looked at; no digit at all is std::invalid_argument.  (The
\* texts of the model are far inside the range of int.)
RECURSIVE StoiDigits(_, _, _, _)
StoiDigits(s, i, acc, seen) ==
    IF i <= Len(s) /\ s[i] \in DigitSet
    THEN StoiDigits(s, i + 1, acc * 10 + DigitVal(s[i]), TRUE)
    ELSE [ok |-> seen, val |-> acc]

stoi(s) ==
    LET i == SkipSpaces(s, 1)
        negative == i <= Len(s) /\ s[i] = "-"
        signed == i <= Len(s) /\ s[i] \in {"-", "+"}
        r == StoiDigits(s, IF signed THEN i + 1 ELSE i, 0, FALSE)
    IN  [ok |-> r.ok, val |-> IF negative THEN 0 - r.val ELSE r.val]

NoKey == ""
Latest(key, timestamp) == [kind |-> "pair", key |-> key, timestamp |-> timestamp]
ScanThrown(what) == [kind |-> what, key |-> NoKey, timestamp |-> 0]

\* the loop of getLatestCreatedKey from position i, with the latest so far
RECURSIVE LatestLoop(_, _, _, _)
LatestLoop(d, keys, i, latest) ==
    IF i > Len(keys) THEN latest
    ELSE IF FirstChar(d[keys[i]]) = "{"
    THEN LET key_data == ReaderParse(d[keys[i]])
             text == asString(Member(key_data, NameTimestamp))
             n == stoi(text.text)
         IN  IF ~text.ok THEN ScanThrown("LogicError")
             ELSE IF ~n.ok THEN ScanThrown("invalid_argument")
             ELSE IF n.val > latest.timestamp
                  THEN LatestLoop(d, keys, i + 1, Latest(keys[i], n.val))
                  ELSE LatestLoop(d, keys, i + 1, latest)
    ELSE LatestLoop(d, keys, i + 1, latest)

getLatestCreatedKey(d) == LatestLoop(d, Iterate(d), 1, Latest(NoKey, 0))

\* exec("date -d @" + timestamp): the rendering of the timestamp by date(1)
exec(timestamp) == <<"date">> \o timestamp

\* the loop of getAllKeys from position i, with the report so far
RECURSIVE AllKeysLoop(_, _, _, _)
AllKeysLoop(d, keys, i, keysInfo) ==
    IF i > Len(keys)
    THEN [kind |-> "report", keysInfo |-> keysInfo, counter |-> Len(keys)]
    ELSE IF FirstChar(d[keys[i]]) = "{"
    THEN LET key_data == ReaderParse(d[keys[i]])
             timestamp == asString(Member(key_data, NameTimestamp))
             value == asString(Member(key_data, NameValue))
         IN  IF ~timestamp.ok \/ ~value.ok
             THEN [kind |-> "LogicError", keysInfo |-> <<>>, counter |-> 0]
             ELSE AllKeysLoop(d, keys, i + 1,
                      Append(keysInfo, [key |-> keys[i], value |-> value.text,
                                        timestamp |-> exec(timestamp.text)]))
    ELSE AllKeysLoop(d, keys, i + 1,
             Append(keysInfo, [key |-> keys[i], value |-> d[keys[i]],
                               timestamp |-> <<>>]))

getAllKeys(d) == AllKeysLoop(d, Iterate(d), 1, <<>>)

\* the records a scan may meet: raw values of older versions (one of them
\* empty), records written by writeString at the times of ScanTimes, and
\* values that begin with '{' and are not such records
ScanTimes == {0, 9, 10}
ScanRecords ==
    {<<>>, <<"a">>, <<"{", "a">>, <<"{">> \o QuotedValueName \o <<":", Quote, "a", Quote, "}">>}
    \cup {FastWriterWrite(to_string(t), <<"a">>) : t \in ScanTimes}

NoScan == [op |-> "idle", arg |-> 0, result |-> [kind |-> "none"]]
Scanned(op, arg, result) == [op |-> op, arg |-> arg, result |-> result]

VisitKeys(visitor, maxKeysToVisit, tails) ==
    /\ scan' = Scanned("visitKeys", maxKeysToVisit,
                       visitKeys(db, visitor, maxKeysToVisit, tails))
    /\ UNCHANGED <<cacheVars, storeVars, registryVars>>

WriteKeysToVector1(maxKeysToVisit) ==
    /\ scan' = Scanned("writeKeysToVector1", maxKeysToVisit,
                       writeKeysToVector1(db, maxKeysToVisit))
    /\ UNCHANGED <<cacheVars, storeVars, registryVars>>

GetAllKeys ==
    /\ scan' = Scanned("getAllKeys", 0, getAllKeys(db))
    /\ UNCHANGED <<cacheVars, storeVars, registryVars>>

GetLatestCreatedKey ==
    /\ scan' = Scanned("getLatestCreatedKey", 0, getLatestCreatedKey(db))
    /\ UNCHANGED <<cacheVars, storeVars, registryVars>>

ScanRest == scan = NoScan

ScanNext ==
    \/ \E visitor \in Visitors, n \in 0..MaxKeysToVisit, tails \in [ScanKeys -> BufferTails] :
           VisitKeys(visitor, n, tails)
    \/ \E n \in 0..MaxKeysToVisit : WriteKeysToVector1(n)
    \/ GetAllKeys
    \/ GetLatestCreatedKey

(***************************************************************************)
(* The registry at rest.                                                    *)
(***************************************************************************)
NullHandle == <<>>
NoCall == [op |-> "idle", kind |-> "none", val |-> NullHandle]

RegistryRest ==
    /\ isInited = FALSE
    /\ levelDb = NullHandle
    /\ csrDb = NullHandle
    /\ csrStatusDb = NullHandle
    /\ sgx_data_folder = <<>>
    /\ ipc = "idle"
    /\ rret = NoCall

(***************************************************************************)
(* The registry: initDataFolderAndDBs, called from the start-up thread,     *)
(* and the getters, called from any thread at any moment.  The call is      *)
(* followed through the places where it can fail.                           *)
(***************************************************************************)
Cwds == {"/a", "/b"}
NoCwd == "NULL"
SGXDATA_FOLDER == "sgx_data/"
WALLETDB_NAME == "sgxwallet.db"

\* string(cwd) + "/" + SGXDATA_FOLDER
DataFolder(cwd) == <<cwd, "/", SGXDATA_FOLDER>>
DataFolders == {DataFolder(cwd) : cwd \in Cwds}

\* LevelDB::LevelDB(filename): the object, or the exception when the engine
\* does not open the database
LevelDBOpen(filename, opened) ==
    IF opened THEN [kind |-> "object", val |-> filename]
    ELSE [kind |-> "runtime_error", val |-> NullHandle]

RCall(op, kind, val) == [op |-> op, kind |-> kind, val |-> val]

\* initDataFolderAndDBs that runs again when the registry is initialized
initDataFolderAndDBsEntry_NoCheck(inited) == Done

\* the first statement of initDataFolderAndDBs
initDataFolderAndDBsEntry(inited) == CHECK_STATE(~inited)

\* getLevelDb, getCsrDb, getCsrStatusDb: CHECK_STATE(handle); return handle
getHandle(handle) ==
    IF CHECK_STATE(handle # NullHandle) = Done
    THEN RCall("get", "handle", handle)
    ELSE RCall("get", "InvalidStateException", NullHandle)

\* the call ends with an exception
InitThrows(what) ==
    /\ rret' = RCall("initDataFolderAndDBs", what, NullHandle)
    /\ ipc' = "idle"

InitDataFolderAndDBs ==
    /\ ipc = "idle"
    /\ IF initDataFolderAndDBsEntry(isInited) = Done
       THEN /\ isInited' = TRUE
            /\ ipc' = "getcwd"
            /\ UNCHANGED rret
       ELSE /\ InitThrows("InvalidStateException")
            /\ UNCHANGED isInited
    /\ UNCHANGED <<levelDb, csrDb, csrStatusDb, sgx_data_folder, folders>>
    /\ UNCHANGED <<cacheVars, storeVars, scan>>

InitGetcwd(cwd) ==
    /\ ipc = "getcwd"
    /\ IF cwd = NoCwd
       THEN /\ InitThrows("COULD_NOT_GET_WORKING_DIRECTORY")
            /\ UNCHANGED sgx_data_folder
       ELSE /\ sgx_data_folder' = DataFolder(cwd)
            /\ ipc' = "stat"
            /\ UNCHANGED rret
    /\ UNCHANGED <<isInited, levelDb, csrDb, csrStatusDb, folders>>
    /\ UNCHANGED <<cacheVars, storeVars, scan>>

\* stat, and mkdir when the folder is not there; mkdir is the exit status
InitDataFolder(mkdir) ==
    /\ ipc = "stat"
    /\ IF sgx_data_folder \in folders
       THEN /\ ipc' = "levelDb"
            /\ UNCHANGED <<rret, folders>>
       ELSE IF mkdir = 0
       THEN /\ folders' = folders \cup {sgx_data_folder}
            /\ ipc' = "levelDb"
            /\ UNCHANGED rret
       ELSE /\ InitThrows("ERROR_CREATING_SGX_DATA_FOLDER")
            /\ UNCHANGED folders
    /\ UNCHANGED <<isInited, levelDb, csrDb, csrStatusDb, sgx_data_folder>>
    /\ UNCHANGED <<cacheVars, storeVars, scan>>

InitOpenLevelDb(opened) ==
    /\ ipc = "levelDb"
    /\ LET made == LevelDBOpen(sgx_data_folder \o <<WALLETDB_NAME>>, opened) IN
       IF made.kind = "object"
       THEN /\ levelDb' = made.val
            /\ ipc' = "csrDb"
            /\ UNCHANGED rret
       ELSE /\ InitThrows(made.kind)
            /\ UNCHANGED levelDb
    /\ UNCHANGED <<isInited, csrDb, csrStatusDb, sgx_data_folder, folders>>
    /\ UNCHANGED <<cacheVars, storeVars, scan>>

InitOpenCsrDb(opened) ==
    /\ ipc = "csrDb"
    /\ LET made == LevelDBOpen(sgx_data_folder \o <<"CSR_DB">>, opened) IN
       IF made.kind = "object"
       THEN /\ csrDb' = made.val
            /\ ipc' = "csrStatusDb"
            /\ UNCHANGED rret
       ELSE /\ InitThrows(made.kind)
            /\ UNCHANGED csrDb
    /\ UNCHANGED <<isInited, levelDb, csrStatusDb, sgx_data_folder, folders>>
    /\ UNCHANGED <<cacheVars, storeVars, scan>>

InitOpenCsrStatusDb(opened) ==
    /\ ipc = "csrStatusDb"
    /\ LET made == LevelDBOpen(sgx_data_folder \o <<"CSR_STATUS_DB">>, opened) IN
       IF made.kind = "object"
       THEN /\ csrStatusDb' = made.val
            /\ rret' = RCall("initDataFolderAndDBs", "void", NullHandle)
            /\ ipc' = "idle"
       ELSE /\ InitThrows(made.kind)
            /\ UNCHANGED csrStatusDb
    /\ UNCHANGED <<isInited, levelDb, csrDb, sgx_data_folder, folders>>
    /\ UNCHANGED <<cacheVars, storeVars, scan>>

Getter(op, handle) ==
    /\ rret' = [getHandle(handle) EXCEPT !.op = op]
    /\ UNCHANGED <<isInited, levelDb, csrDb, csrStatusDb, sgx_data_folder, ipc, folders>>
    /\ UNCHANGED <<cacheVars, storeVars, scan>>

GetLevelDb == Getter("getLevelDb", levelDb)
GetCsrDb == Getter("getCsrDb", csrDb)
GetCsrStatusDb == Getter("getCsrStatusDb", csrStatusDb)

GetSgxDataFolder ==
    /\ rret' = RCall("getSgxDataFolder", "value", sgx_data_folder)
    /\ UNCHANGED <<isInited, levelDb, csrDb, csrStatusDb, sgx_data_folder, ipc, folders>>
    /\ UNCHANGED <<cacheVars, storeVars, scan>>

RegistryNext ==
    \/ InitDataFolderAndDBs
    \/ \E cwd \in Cwds \cup {NoCwd} : InitGetcwd(cwd)
    \/ \E mkdir \in {0, 1} : InitDataFolder(mkdir)
    \/ \E opened \in BOOLEAN : InitOpenLevelDb(opened)
    \/ \E opened \in BOOLEAN : InitOpenCsrDb(opened)
    \/ \E opened \in BOOLEAN : InitOpenCsrStatusDb(opened)
    \/ GetLevelDb
    \/ GetCsrDb
    \/ GetCsrStatusDb
    \/ GetSgxDataFolder

(***************************************************************************)
(* Deletions through the name-scoped entry points.  Keys are sequences of   *)
(* characters here, since what matters is how they begin.                   *)
(***************************************************************************)
TMP_NEK == <<"t", "m", "p", "_", "N", "E", "K">>
DKG_DH_KEY_ == <<"D", "K", "G", "_", "D", "H", "_", "K", "E", "Y", "_">>

\* _key.rfind(prefix, 0) == 0
StartsWith(s, prefix) == Len(s) >= Len(prefix) /\ SubSeq(s, 1, Len(prefix)) = prefix

deleteDHDKGKey(d, key, fault) ==
    LET full_key == DKG_DH_KEY_ \o key
        p == EngineDelete(d, full_key, fault)
    IN  [db |-> p.db,
         ret |-> IF throwExceptionOnError(p.status)
                 THEN Thrown("COULD_NOT_ACCESS_DATABASE") ELSE Done]

\* deleteTempNEK that deletes whatever key it is given
deleteTempNEK_NoPrefixCheck(d, key, fault) == deleteKey(d, key, fault)

deleteTempNEK(d, key, fault) ==
    IF CHECK_STATE(StartsWith(key, TMP_NEK)) # Done
    THEN [db |-> d, ret |-> Thrown("InvalidStateException")]
    ELSE LET p == EngineDelete(d, key, fault) IN
         [db |-> p.db,
          ret |-> IF throwExceptionOnError(p.status)
                  THEN Thrown("COULD_NOT_ACCESS_DATABASE") ELSE Done]

\* the keys the entry points are called with, and the keys the store holds
ScopedNames == {<<>>, <<"1">>, <<"t", "m", "p">>, TMP_NEK \o <<"1">>, DKG_DH_KEY_ \o <<"1">>}
ScopedKeys == {<<"1">>, <<"t", "m", "p">>, TMP_NEK \o <<"1">>, DKG_DH_KEY_ \o <<"1">>,
               DKG_DH_KEY_ \o TMP_NEK \o <<"1">>}

ScopedRet(op, key, r) ==
    [op |-> op, key |-> key, kind |-> r.kind, val |-> r.val,
     was |-> IF key \in DOMAIN db THEN "legacy" ELSE "absent"]

DeleteTempNEK(key, fault) ==
    /\ LET r == deleteTempNEK(db, key, fault) IN
       /\ db' = r.db
       /\ sret' = ScopedRet("deleteTempNEK", key, r.ret)
    /\ UNCHANGED <<inflight, busy, lastWrite, uniqueWrites>>
    /\ UNCHANGED <<cacheVars, scan, registryVars>>

DeleteDHDKGKey(key, fault) ==
    /\ LET r == deleteDHDKGKey(db, key, fault) IN
       /\ db' = r.db
       /\ sret' = ScopedRet("deleteDHDKGKey", key, r.ret)
    /\ UNCHANGED <<inflight, busy, lastWrite, uniqueWrites>>
    /\ UNCHANGED <<cacheVars, scan, registryVars>>

ScopedNext ==
    \/ \E key \in ScopedNames, f \in Statuses : DeleteTempNEK(key, f)
    \/ \E key \in ScopedNames, f \in Statuses : DeleteDHDKGKey(key, f)

CacheRest ==
    /\ cache_items_list = <<>>
    /\ cache_items_map = EmptyMap
    /\ m = 0
    /\ cpc = [t \in Threads |-> Idle]
    /\ cret = [op |-> "idle", key |-> NoArg, kind |-> "none", val |-> NoArg, n |-> 0]
    /\ recency = <<>>
    /\ lastPut = [k \in CacheKeys |-> NoArg]
    /\ serial = [list |-> <<>>, map |-> EmptyMap]

\* the database file opened by the constructor may already hold records
StoreInit ==
    /\ \E present \in SUBSET StoreKeys : db \in [present -> InitialRecords]
    /\ StoreRest
    /\ max_size = MaxCapacity
    /\ CacheRest
    /\ ScanRest
    /\ RegistryRest
    /\ folders = {}

CacheInit ==
    /\ max_size \in 0..MaxCapacity
    /\ CacheRest
    /\ db = [k \in {} |-> <<>>]
    /\ StoreRest
    /\ ScanRest
    /\ RegistryRest
    /\ folders = {}

CacheNext ==
    \/ \E t \in Threads, k \in CacheKeys, v \in CacheValues : CacheCall(t, "put", k, v)
    \/ \E t \in Threads, k \in CacheKeys, v \in CacheValues :
           CacheCall(t, "putIfDoesNotExist", k, v)
    \/ \E t \in Threads, k \in CacheKeys : CacheCall(t, "get", k, NoArg)
    \/ \E t \in Threads, k \in CacheKeys : CacheCall(t, "exists", k, NoArg)
    \/ \E t \in Threads : CacheCall(t, "size", NoArg, NoArg)
    \/ \E t \in Threads : PutBody(t)
    \/ \E t \in Threads : PutIfDoesNotExistBody(t)
    \/ \E t \in Threads : GetBody(t)
    \/ \E t \in Threads : ExistsBody(t)
    \/ \E t \in Threads : SizeBody(t)

SpecCache == CacheInit /\ [][CacheNext]_vars

LockInit ==
    /\ max_size \in 1..MaxCapacity
    /\ CacheRest
    /\ db = [k \in {} |-> <<>>]
    /\ StoreRest
    /\ ScanRest
    /\ RegistryRest
    /\ folders = {}

SpecLock == LockInit /\ [][LockNext]_vars

SpecStore == StoreInit /\ [][StoreNext]_vars

\* the scans are functions of the engine's content: the content is an input
ScanInit ==
    /\ \E present \in SUBSET ScanKeys : db \in [present -> ScanRecords]
    /\ StoreRest
    /\ max_size = MaxCapacity
    /\ CacheRest
    /\ ScanRest
    /\ RegistryRest
    /\ folders = {}

SpecScan == ScanInit /\ [][ScanNext]_vars

\* the process starts with or without the data folders on disk
RegistryInit ==
    /\ folders \in SUBSET DataFolders
    /\ RegistryRest
    /\ db = [k \in {} |-> <<>>]
    /\ StoreRest
    /\ max_size = MaxCapacity
    /\ CacheRest
    /\ ScanRest

SpecRegistry == RegistryInit /\ [][RegistryNext]_vars

\* the store as the name-scoped deletions find it
ScopedInit ==
    /\ \E present \in SUBSET ScopedKeys : db = [k \in present |-> <<"a">>]
    /\ inflight = [c \in Calls |-> 0]
    /\ busy = 0
    /\ sret = [op |-> "idle", key |-> <<>>, kind |-> "none", val |-> <<>>, was |-> "absent"]
    /\ lastWrite = [k \in StoreKeys |-> NotWritten]
    /\ uniqueWrites = [k \in StoreKeys |-> NoUniqueWrites]
    /\ max_size = MaxCapacity
    /\ CacheRest
    /\ ScanRest
    /\ RegistryRest
    /\ folders = {}

SpecScoped == ScopedInit /\ [][ScopedNext]_vars

(***************************************************************************)
(* Properties of the cache, checked under SpecCache.                       *)
(***************************************************************************)
CacheKeysPresent == DOMAIN cache_items_map

\* the call of thread m returns in this step
Returns(op) == m # 0 /\ cpc[m].op = op /\ m' = 0

\* the key of S used least recently, by the history of the calls
LruOf(S, order) ==
    CHOOSE k \in S :
        \E i \in 1..Len(order) :
            /\ order[i] = k
            /\ \A j \in (i + 1)..Len(order) : order[j] \notin S

\* C1: whenever an operation has returned (and at every moment the lock is
\* free or held), the number of entries, which is what size() reports, is at
\* most the capacity.
C1_SizeWithinCapacity ==
    /\ size(Cache).ret.n <= max_size
    /\ Len(cache_items_list) <= max_size
    /\ cret.kind = "size" => cret.n <= max_size

\* size() has reported a full cache after more keys were put than it holds
C1_Witness ==
    /\ cret.op = "size"
    /\ cret.n = max_size
    /\ max_size = MaxCapacity
    /\ Len(recency) > max_size

\* C2: put evicts only when the insertion takes the entry count over the
\* capacity, then exactly one entry, the least recently used by the history of
\* puts and successful gets; a put of a key already present evicts nothing.
C2_PutEvictsOnlyLru ==
    [][Returns("put") =>
        LET key == cpc[m].key
            before == CacheKeysPresent
            entries == before \cup {key}
            after == DOMAIN cache_items_map'
        IN  /\ key \in before => after = before
            /\ (key \notin before /\ Cardinality(entries) <= max_size) => after = entries
            /\ (key \notin before /\ Cardinality(entries) > max_size) =>
                   /\ after = entries \ {LruOf(entries, recency')}
                   /\ Cardinality(after) = Cardinality(before)
    ]_vars

\* capacity 2: put(a), put(b), get(a), put(c) has evicted b and left {a, c}
C2_Witness ==
    /\ max_size = 2
    /\ cret.op = "put"
    /\ cret.key = "c"
    /\ recency = <<"c", "a", "b">>
    /\ CacheKeysPresent = {"a", "c"}

\* C3: get of a key that is not present throws and leaves the list and the map
\* as they were; get of a present key returns the value of the most recent put
\* of that key.
C3_GetMissThrowsHitReturnsLastPut ==
    [][Returns("get") =>
        LET key == cpc[m].key IN
        /\ key \notin CacheKeysPresent =>
               /\ cret'.kind = "range_error"
               /\ cache_items_list' = cache_items_list
               /\ cache_items_map' = cache_items_map
        /\ key \in CacheKeysPresent =>
               /\ cret'.kind = "value"
               /\ cret'.val = lastPut[key]
    ]_vars

\* a get of a key that was put and then evicted has thrown
C3_Witness ==
    /\ cret.op = "get"
    /\ cret.kind = "range_error"
    /\ lastPut[cret.key] # NoArg
    /\ cache_items_list # <<>>

\* C4: putIfDoesNotExist of a present key changes neither the list (values and
\* order) nor the map; of an absent key it leaves the cache as put does.
C4_PutIfAbsent ==
    [][Returns("putIfDoesNotExist") =>
        LET key == cpc[m].key
            value == cpc[m].value
        IN
        /\ key \in CacheKeysPresent =>
               /\ cache_items_list' = cache_items_list
               /\ cache_items_map' = cache_items_map
        /\ key \notin CacheKeysPresent =>
               /\ cache_items_list' = put(Cache, key, value).list
               /\ cache_items_map' = put(Cache, key, value).map
               /\ (max_size > 0 =>
                      /\ cache_items_list'[1].key = key
                      /\ cache_items_list'[1].value = value)
    ]_vars

\* putIfDoesNotExist of a present key that is not the most recently used, with
\* another value, has returned: the key is still behind and holds its old value
C4_Witness ==
    /\ cret.op = "putIfDoesNotExist"
    /\ cret.key \in CacheKeysPresent
    /\ Len(cache_items_list) = 2
    /\ cache_items_list[2].key = cret.key
    /\ cache_items_list[2].value = "v1"
    /\ lastPut[cret.key] = "v1"

\* C5: exists and size change neither the list nor the map (so no later
\* eviction), and report the presence of the key and the number of entries.
C5_ExistsAndSizeReadOnly ==
    [][(Returns("exists") \/ Returns("size")) =>
        /\ cache_items_list' = cache_items_list
        /\ cache_items_map' = cache_items_map
        /\ Returns("exists") =>
               cret'.val = (IF cpc[m].key \in CacheKeysPresent THEN "true" ELSE "false")
        /\ Returns("size") => cret'.n = Cardinality(CacheKeysPresent)
    ]_vars

\* exists has found the least recently used key of a full cache, which is
\* still the least recently used
C5_Witness ==
    /\ cret.op = "exists"
    /\ cret.val = "true"
    /\ max_size = 2
    /\ Len(cache_items_list) = 2
    /\ cache_items_list[2].key = cret.key

(***************************************************************************)
(* Properties of the store, checked under SpecStore.                       *)
(***************************************************************************)
\* C6: after any sequence of writes, unique writes and deletes, reading a key
\* whose last successful write has not been followed by a delete returns the
\* payload of that write, the empty payload included.
C6_ReadReturnsLastWrite ==
    /\ \A k \in StoreKeys :
           lastWrite[k].state = "written" =>
               readString(db, k, NoFault) = Payload(lastWrite[k].val)
    /\ (sret.op = "readString" /\ sret.was = "written") =>
           \/ sret.kind = "COULD_NOT_ACCESS_DATABASE"
           \/ sret.kind = "value" /\ sret.val = lastWrite[sret.key].val

\* a read has returned the empty payload that a write stored
C6_Witness ==
    /\ sret.op = "readString"
    /\ sret.kind = "value"
    /\ sret.was = "written"
    /\ sret.val = <<>>
    /\ lastWrite[sret.key] = Written(<<>>)

\* C7: a writeDataUnique that finds a record under the key (whatever its
\* format, the engine answering) throws KEY_SHARE_ALREADY_EXISTS.
C7_ExistingRecordIsDuplicateKey ==
    (sret.op = "writeDataUnique" /\ sret.was # "absent"
        /\ sret.kind # "COULD_NOT_ACCESS_DATABASE")
    => sret.kind = "KEY_SHARE_ALREADY_EXISTS"

\* C8: the write of a writeDataUnique whose read found no record is not
\* conditional: if the engine takes it, the call returns normally and the key
\* holds the payload of this call, whatever another call stored in between.
C8_UniqueWriteIsUnconditional ==
    [][\A c \in Calls :
          (inflight'[c] < inflight[c] /\ sret'.kind # "COULD_NOT_ACCESS_DATABASE") =>
              /\ sret'.op = "writeDataUnique"
              /\ sret'.kind = "void"
              /\ readString(db', c.key, NoFault) = Payload(c.value)
    ]_vars

\* two writeDataUnique calls on one key, with different payloads, have both
\* returned normally with no delete between them, and the key holds what the
\* second wrote
C8_Witness ==
    /\ sret.op = "writeDataUnique"
    /\ sret.kind = "void"
    /\ uniqueWrites[sret.key].n = 2
    /\ uniqueWrites[sret.key].changed
    /\ readString(db, sret.key, NoFault) = Payload(lastWrite[sret.key].val)

\* C9: deleteKey of a key without a record returns normally and leaves the
\* store as it was; deleting twice returns normally both times, a read of the
\* key finds nothing after either, and the other keys keep their records.
C9_DeleteIdempotent ==
    /\ \A k \in StoreKeys :
           LET first == deleteKey(db, k, NoFault)
               second == deleteKey(first.db, k, NoFault)
           IN  /\ first.ret = Done
               /\ second.ret = Done
               /\ k \notin DOMAIN db => first.db = db
               /\ second.db = first.db
               /\ readString(first.db, k, NoFault) = Nullptr
               /\ readString(second.db, k, NoFault) = Nullptr
               /\ \A j \in StoreKeys \ {k} :
                      /\ j \in DOMAIN first.db <=> j \in DOMAIN db
                      /\ j \in DOMAIN db => first.db[j] = db[j]
    /\ (sret.op = "deleteKey" /\ sret.kind # "COULD_NOT_ACCESS_DATABASE") =>
           /\ sret.kind = "void"
           /\ sret.key \notin DOMAIN db

\* a deleteKey of a key that held no record has returned normally while the
\* other key holds one
C9_Witness ==
    /\ sret.op = "deleteKey"
    /\ sret.kind = "void"
    /\ sret.was = "absent"
    /\ DOMAIN db = StoreKeys \ {sret.key}

\* C10: readString returns nullptr exactly when the engine answers not-found,
\* which it does exactly when it holds no record for the key; not-found never
\* becomes COULD_NOT_ACCESS_DATABASE, and every status other than ok and
\* not-found does.
C10_NotFoundIsEmptyOtherStatusThrows ==
    /\ \A k \in StoreKeys, f \in Statuses :
           LET status == EngineGet(db, k, f).status
               r == readString(db, k, f)
           IN  /\ r = Nullptr <=> status = "NotFound"
               /\ r = Nullptr <=> (f = NoFault /\ k \notin DOMAIN db)
               /\ status = "NotFound" => r.kind # "COULD_NOT_ACCESS_DATABASE"
               /\ status \notin {"ok", "NotFound"} =>
                      r = Thrown("COULD_NOT_ACCESS_DATABASE")
               /\ status = "ok" => r.kind # "COULD_NOT_ACCESS_DATABASE"
    /\ sret.op = "readString" =>
           /\ sret.kind = "nullptr" => sret.was = "absent"
           /\ sret.was = "absent" =>
                  sret.kind \in {"nullptr", "COULD_NOT_ACCESS_DATABASE"}

\* a read of a key without a record has returned nullptr in a store that holds
\* a record under the other key
C10_Witness ==
    /\ sret.op = "readString"
    /\ sret.kind = "nullptr"
    /\ sret.was = "absent"
    /\ DOMAIN db = StoreKeys \ {sret.key}

\* C11: a read of a key whose stored bytes do not begin with '{' (the empty
\* sequence included) returns exactly those bytes, the engine answering.
C11_LegacyBytesReadVerbatim ==
    (/\ sret.op = "readString"
     /\ sret.key \in DOMAIN db
     /\ sret.kind # "COULD_NOT_ACCESS_DATABASE"
     /\ (db[sret.key] = <<>> \/ db[sret.key][1] # "{"))
    => (sret.kind = "value" /\ sret.val = db[sret.key])

\* C12: a read of a key whose stored bytes begin with '{' and which the JSON
\* reader rejects ends with a corrupt-record error and returns no payload.
C12_UnparsableRecordIsCorrupt ==
    (/\ sret.op = "readString"
     /\ sret.key \in DOMAIN db
     /\ sret.kind # "COULD_NOT_ACCESS_DATABASE"
     /\ db[sret.key] # <<>>
     /\ db[sret.key][1] = "{"
     /\ ~ReaderParse(db[sret.key]).ok)
    => sret.kind \notin {"value", "nullptr"}

(***************************************************************************)
(* Properties of the scans, checked under SpecScan.                        *)
(***************************************************************************)
Min(a, b) == IF a < b THEN a ELSE b
KeysOf(items) == [i \in 1..Len(items) |-> items[i].key]

\* C13: visitKeys and writeKeysToVector1 with limit maxKeys on a store of M
\* keys take exactly the first min(maxKeys, M) keys of the engine's order, and
\* visitKeys returns that number.
C13_VisitsMinOfLimitAndKeys ==
    (scan.op \in {"visitKeys", "writeKeysToVector1"} /\ scan.result.kind \in {"count", "keys"})
    => LET keys == Iterate(db)
           n == Min(scan.arg, Len(keys))
       IN  /\ scan.result.count = n
           /\ KeysOf(scan.result.keys) = SubSeq(keys, 1, n)

\* a Versioned record: an object the reader accepts, with a string "value" and
\* a string "timestamp" of decimal digits
IsDecimal(s) == s # <<>> /\ \A i \in 1..Len(s) : s[i] \in DigitSet
Versioned(bytes) ==
    /\ FirstChar(bytes) = "{"
    /\ LET p == ReaderParse(bytes) IN
       /\ p.ok
       /\ p.val.type = "object"
       /\ Member(p, NameValue).type = "string"
       /\ Member(p, NameTimestamp).type = "string"
       /\ IsDecimal(Member(p, NameTimestamp).text)
TimestampOf(bytes) == stoi(Member(ReaderParse(bytes), NameTimestamp).text).val
VersionedKeys == {k \in DOMAIN db : Versioned(db[k])}

\* C14: getLatestCreatedKey returns a Versioned record of maximal timestamp
\* with that timestamp, whatever else the store holds, and the empty key with
\* timestamp 0 exactly when the store holds no Versioned record.
C14_LatestIsMaxVersioned ==
    scan.op = "getLatestCreatedKey"
    => /\ scan.result.kind = "pair"
       /\ VersionedKeys = {} => (scan.result.key = NoKey /\ scan.result.timestamp = 0)
       /\ VersionedKeys # {} =>
              /\ scan.result.key \in VersionedKeys
              /\ scan.result.timestamp = TimestampOf(db[scan.result.key])
              /\ \A k \in VersionedKeys : TimestampOf(db[k]) <= scan.result.timestamp

\* C19: getAllKeys and getLatestCreatedKey return normally whatever the
\* records hold: a value that begins with '{' and is no Versioned record does
\* not end the scan.
C19_ScansSkipUnparsableRecords ==
    scan.op \in {"getAllKeys", "getLatestCreatedKey"}
    => scan.result.kind \in {"report", "pair"}

(***************************************************************************)
(* Properties of the registry, checked under SpecRegistry.                 *)
(***************************************************************************)
Handles == <<levelDb, csrDb, csrStatusDb>>
AllOpen == \A i \in 1..3 : Handles[i] # NullHandle
NoneOpen == \A i \in 1..3 : Handles[i] = NullHandle
\* a call of initDataFolderAndDBs has returned normally
Completed == isInited /\ ipc = "idle" /\ AllOpen
Getters == {"getLevelDb", "getCsrDb", "getCsrStatusDb"}

\* C15: once a call of initDataFolderAndDBs has completed, a further call
\* does nothing but fail: it opens nothing, and the three handles and the
\* data folder stay as they are.
C15_SecondInitFails ==
    [][Completed =>
        /\ ipc' = "idle"
        /\ isInited'
        /\ Handles' = Handles
        /\ sgx_data_folder' = sgx_data_folder
        /\ (rret' # rret /\ rret'.op = "initDataFolderAndDBs")
               => rret'.kind = "InvalidStateException"
    ]_vars

\* the second call has failed, with the three stores open
C15_Witness ==
    /\ rret.op = "initDataFolderAndDBs"
    /\ rret.kind = "InvalidStateException"
    /\ Completed
    /\ levelDb = sgx_data_folder \o <<WALLETDB_NAME>>

\* C16: whenever no call of initDataFolderAndDBs is running, the registry is
\* either marked initialized with the three handles set, or not marked and
\* without any handle.
C16_InitAllOrNothing ==
    ipc = "idle" => ((isInited /\ AllOpen) \/ (~isInited /\ NoneOpen))

\* C17: a getter called when no initDataFolderAndDBs call has completed fails;
\* once one has completed, it returns the handle of its store.
C17_GetFailsUntilInitCompleted ==
    /\ (rret.op \in Getters /\ ~Completed) => rret.kind = "InvalidStateException"
    /\ (rret.op = "getLevelDb" /\ rret.kind = "handle") => rret.val = levelDb
    /\ (rret.op = "getCsrDb" /\ rret.kind = "handle") => rret.val = csrDb
    /\ (rret.op = "getCsrStatusDb" /\ rret.kind = "handle") => rret.val = csrStatusDb

(***************************************************************************)
(* Properties of the name-scoped deletions, checked under SpecScoped.      *)
(***************************************************************************)
Removed == (DOMAIN db) \ (DOMAIN db')

\* C20: deleteTempNEK with a key that does not begin with "tmp_NEK" fails
\* whatever the engine would have answered and leaves the store as it was; a
\* step of deleteTempNEK removes only the key it was given, which begins with
\* "tmp_NEK", a step of deleteDHDKGKey only a key that begins with
\* "DKG_DH_KEY_", and the other records stay as they were.
C20_ScopedDeleteStaysInNamespace ==
    [][/\ \A k \in DOMAIN db' : k \in DOMAIN db /\ db'[k] = db[k]
       /\ sret'.op = "deleteTempNEK" =>
              /\ ~StartsWith(sret'.key, TMP_NEK) =>
                     (sret'.kind = "InvalidStateException" /\ db' = db)
              /\ \A k \in Removed : k = sret'.key /\ StartsWith(k, TMP_NEK)
       /\ sret'.op = "deleteDHDKGKey" =>
              \A k \in Removed : StartsWith(k, DKG_DH_KEY_)
    ]_vars

\* deleteTempNEK has been refused a key outside its namespace that the store
\* holds, and the store still holds it
C20_Witness ==
    /\ sret.op = "deleteTempNEK"
    /\ sret.kind = "InvalidStateException"
    /\ sret.key = <<"t", "m", "p">>
    /\ sret.key \in DOMAIN db

\* threads between the lock_guard and the return of their operation
InBody(t) == cpc[t] # Idle /\ cpc[t].at \notin {"lock_guard", "return"}

\* C18: every cache operation runs under the one lock, so concurrent calls
\* leave the cache, and return, what they do when run one after the other in
\* the order in which they took the lock: only the owner of the lock is inside
\* an operation, the cache between operations is the one the sequential run
\* leaves, every result a caller has is the sequential one, and a key has one
\* node.
C18_CallsRunInLockOrder ==
    /\ \A t \in Threads : InBody(t) => m = t
    /\ m = 0 =>
          /\ cache_items_list = serial.list
          /\ cache_items_map = serial.map
          /\ Len(cache_items_list) = Cardinality(DOMAIN cache_items_map)
          /\ \A i, j \in 1..Len(cache_items_list) :
                 cache_items_list[i].key = cache_items_list[j].key => i = j
    /\ cret.op # "idle" => [kind |-> cret.kind, val |-> cret.val, n |-> cret.n] = cret.expect

\* C21: every record that write or writeIfAbsent stores is Versioned: a step
\* leaves in the store only records that were there before it, unchanged, and
\* Versioned records, so a record that is not Versioned was in the store
\* before the first operation; and after a successful writeString or
\* writeDataUnique the key holds a Versioned record, whatever it held before.
C21_WrittenRecordsAreVersioned ==
    [][
       /\ \A k \in DOMAIN db' :
              (k \notin DOMAIN db \/ db'[k] # db[k]) => Versioned(db'[k])
       /\ (sret'.op \in {"writeString", "writeDataUnique"} /\ sret'.kind = "void")
              => (sret'.key \in DOMAIN db' /\ Versioned(db'[sret'.key]))
    ]_vars

\* writeString has replaced a Legacy record by a Versioned one, while another
\* key still holds the Legacy record it held from the start
C21_Witness ==
    /\ sret.op = "writeString"
    /\ sret.kind = "void"
    /\ sret.was = "legacy"
    /\ Versioned(db[sret.key])
    /\ \E k \in DOMAIN db :
           /\ ~Versioned(db[k])
           /\ lastWrite[k] = NotWritten

====
